---- MODULE Spec2Model ----
(***************************************************************************)
(* Model of the course assistant's retrieval-and-answer pipeline:          *)
(*   backend/ingest.py         chunk_text_tokenwise, process_single_file   *)
(*   backend/query_engine.py   EnhancedQueryEngine.query, confidence gate  *)
(*   backend/quiz_generator.py QuizGenerator.generate_quiz                 *)
(*   backend/database.py       save_quiz                                   *)
(*   backend/ingest.py         Embedder, ingest_files, the collection's add *)
(*   src/query_rewriter.py     QueryRewriter.rewrite_query                 *)
(*   src/youtube_search.py     YouTubeSearcher.search_educational_videos   *)
(* Texts are sequences of characters; the tokenizer is character level.    *)
(* Similarity scores are integers in hundredths (0.7 is 70).               *)
(***************************************************************************)
EXTENDS Integers, Sequences, FiniteSets, TLC

\* ------------------------------------------------------------------ bounds
MaxLen == 4
MaxTokens == 4
MaxChunks == MaxLen + 1
MaxPages == 2
MaxIndexed == 2
MaxQuizCalls == 2
MaxEmbed == 33
MaxFiles == 2
MaxIds == 3
MaxSessionQuizzes == 1

\* ------------------------------------------------------------ small helpers
Min(a, b) == IF a < b THEN a ELSE b
Max(a, b) == IF a > b THEN a ELSE b

Chars == {"a", "b", " "}

RECURSIVE SeqsUpTo(_, _)
SeqsUpTo(S, n) ==
    IF n = 0 THEN {<<>>}
    ELSE LET shorter == SeqsUpTo(S, n - 1)
         IN  shorter \cup {Append(s, c) : s \in {t \in shorter : Len(t) = n - 1}, c \in S}

Texts == SeqsUpTo(Chars, MaxLen)

\* Python's None.
None == [none |-> TRUE]

\* An entry of the log: a call on a collaborator and what it was called with.
Call(op, arg) == [op |-> op, arg |-> arg]

\* ------------------------------------------------------------------- state
VARIABLES
    text, max_tokens, overlap,   \* arguments of chunk_text_tokenwise
    tokens, step, i, chunks,     \* its locals
    cpc,                         \* its position: idle, loop, returned
    path, parts, seg,            \* process_single_file: the file, its segments, the loop index
    all_chunks, all_metadatas, all_ids,
    next_uid,                    \* the next fresh uuid
    coll,                        \* the Chroma collection: a sequence of entries
    psf_result,                  \* what process_single_file returned
    ipc,                         \* its position: idle, parts, chunking, done, raised
    question, get_videos,        \* arguments of EnhancedQueryEngine.query
    rewrite_reply,               \* what llm.complete gave the rewriter: a text, or LLMError
    rewritten_query, response,
    search_outcome,              \* what the YouTube API gave: items, or SearchError
    result,
    qpc,                         \* its position: idle, rewrite, retrieve, enrich, done, raised
    log,                         \* the collaborator calls of the running call, in order
    topic, context,              \* arguments of QuizGenerator.generate_quiz
    completion,                  \* what llm.complete gave: a text, or LLMError when it raised
    quiz_data,                   \* what json.loads returned
    quiz_result,                 \* what generate_quiz returned
    quiz_store,                  \* the rows of the quizzes table, oldest first
    store_before,                \* the rows when the running generate_quiz call began
    quiz_calls,                  \* how many generate_quiz calls have begun
    gpc,                         \* its position: idle, llm, save, done
    emb_cfg,                     \* Embedder: the constructor's arguments and the libraries present
    self_use_openai,             \* Embedder: self.use_openai
    embed_texts, embed_i, results,  \* embed_many: its argument and locals
    strategies_used,             \* the strategies embed_many calls on the object have taken
    epc,                         \* Embedder: new, config_error, ready, batching, returned, raised
    paths, file_idx, total,      \* ingest_files: its argument, the loop position, the sum
    file_results,                \* the counts logged per file, in order
    persisted,                   \* the collection as stored in persist_directory
    fpc,                         \* its position: idle, loop, done, raised
    last_add,                    \* the latest insert_chunks_to_collection call and its outcome
    context_arg,                 \* EnhancedQueryEngine.generate_quiz: its context argument
    retrieval_response,          \* the texts of retrieval_response.source_nodes
    eqpc                         \* its position: idle, retrieve, delegate, generating, raised

chunkVars == <<text, max_tokens, overlap, tokens, step, i, chunks, cpc>>
ingestVars == <<path, parts, seg, all_chunks, all_metadatas, all_ids, next_uid, coll,
                psf_result, ipc>>
queryVars == <<question, get_videos, rewrite_reply, rewritten_query, response,
               search_outcome, result, qpc>>
quizVars == <<topic, context, completion, quiz_data, quiz_result, quiz_store, store_before,
              quiz_calls, gpc>>
embedVars == <<emb_cfg, self_use_openai, embed_texts, embed_i, results, strategies_used, epc>>
filesVars == <<paths, file_idx, total, file_results, persisted, fpc>>
engineVars == <<context_arg, retrieval_response, eqpc>>
moreVars == <<embedVars, filesVars, last_add, engineVars>>
vars == <<chunkVars, ingestVars, queryVars, log, quizVars, moreVars>>

\* --------------------------------------------------------------- tokenizer
\* enc.encode: one token id per character (ids of the cl100k_base single
\* character tokens).
TokenOf(c) == CASE c = "a" -> 64 [] c = "b" -> 65 [] c = " " -> 220
CharOf(t) == CASE t = 64 -> "a" [] t = 65 -> "b" [] t = 220 -> " "
enc_encode(s) == [k \in 1..Len(s) |-> TokenOf(s[k])]
enc_decode(ts) == [k \in 1..Len(ts) |-> CharOf(ts[k])]

\* Python's s[lo:hi] for any integers lo, hi (negative indices count from
\* the end, out-of-range indices are clamped).
PyIndex(n, x) == IF x < 0 THEN Max(n + x, 0) ELSE Min(x, n)
\* Variant whose upper index is inclusive.
PySlice_Inclusive(s, lo, hi) ==
    LET a == PyIndex(Len(s), lo)
        b == PyIndex(Len(s), hi + 1)
    IN  IF a < b THEN SubSeq(s, a + 1, b) ELSE <<>>

PySlice(s, lo, hi) ==
    LET a == PyIndex(Len(s), lo)
        b == PyIndex(Len(s), hi)
    IN  IF a < b THEN SubSeq(s, a + 1, b) ELSE <<>>

\* ------------------------------------------------- chunk_text_tokenwise
\* lines 105-111: tokenize, return [] on no tokens, else set up the loop.
ChunkEnter(t, M, O) ==
    /\ text' = t
    /\ max_tokens' = M
    /\ overlap' = O
    /\ tokens' = enc_encode(t)
    /\ chunks' = <<>>
    /\ IF enc_encode(t) = <<>>
       THEN /\ cpc' = "returned"
            /\ UNCHANGED <<step, i>>
       ELSE /\ step' = M - O
            /\ i' = 0
            /\ cpc' = "loop"

ChunkCall ==
    /\ cpc = "idle"
    /\ \E t \in Texts, M \in 1..MaxTokens, O \in 0..MaxTokens : ChunkEnter(t, M, O)
    /\ UNCHANGED <<ingestVars, queryVars, log, quizVars, moreVars>>

\* lines 112-116: one iteration of the while loop.
ChunkLoop ==
    /\ cpc = "loop"
    /\ i < Len(tokens)
    /\ Len(chunks) < MaxChunks
    /\ chunks' = Append(chunks, enc_decode(PySlice(tokens, i, i + max_tokens)))
    /\ i' = i + step
    /\ UNCHANGED <<text, max_tokens, overlap, tokens, step, cpc>>
    /\ UNCHANGED <<ingestVars, queryVars, log, quizVars, moreVars>>

\* line 117: the loop condition fails and the chunks are returned.
ChunkReturn ==
    /\ cpc = "loop"
    /\ ~(i < Len(tokens))
    /\ cpc' = "returned"
    /\ UNCHANGED <<text, max_tokens, overlap, tokens, step, i, chunks>>
    /\ UNCHANGED <<ingestVars, queryVars, log, quizVars, moreVars>>

\* ----------------------------------------------------------- text extraction
\* A page or slide of a file: its text, or a page whose extraction raises.
Page(t) == [ok |-> TRUE, text |-> t]
BadPage == [ok |-> FALSE, text |-> <<>>]

\* extract_text_from_pdf: a page that raises yields "", locators are 1-based.
extract_text_from_pdf(pages) ==
    [k \in 1..Len(pages) |->
        [text |-> IF pages[k].ok THEN pages[k].text ELSE <<>>, page |-> k]]

\* extract_text_from_pptx: no handler around a slide; locators are 1-based.
extract_text_from_pptx(pages) ==
    [k \in 1..Len(pages) |-> [text |-> pages[k].text, page |-> k]]
pptx_raises(pages) == \E k \in 1..Len(pages) : ~pages[k].ok

\* extract_text_from_txt_or_md: the whole file is one segment, page None.
extract_text_from_txt_or_md(pages) == <<[text |-> pages[1].text, page |-> None]>>

\* text.strip(): leading and trailing whitespace removed.
RECURSIVE lstrip(_)
lstrip(s) == IF s # <<>> /\ Head(s) = " " THEN lstrip(Tail(s)) ELSE s
RECURSIVE rstrip(_)
rstrip(s) == IF s # <<>> /\ s[Len(s)] = " " THEN rstrip(SubSeq(s, 1, Len(s) - 1)) ELSE s
strip(s) == rstrip(lstrip(s))

\* Variant of line 229 that forgets strip(): `not text`.
IsBlank_NoStrip(t) == t = <<>>

\* line 229: `not text or len(text.strip()) == 0`
IsBlank(t) == t = <<>> \/ Len(strip(t)) = 0

\* ------------------------------------------------------------ the embedder
EmbedOne(t) == [vector_of |-> t]

\* line 140: the batch size of the remote strategy.
BATCH == 16

\* What openai.Embedding.create gives for a batch (resp["data"]) and what
\* model.encode gives for the texts: one embedding per input, in input order.
Embedding_create(batch) == [k \in 1..Len(batch) |-> EmbedOne(batch[k])]
model_encode(texts) == [k \in 1..Len(texts) |-> EmbedOne(texts[k])]

\* Variant of line 142 whose slice is one short.
BatchOf_Short(texts, at) == PySlice(texts, at, at + BATCH - 1)

\* line 142: batch = texts[i : i + BATCH]
BatchOf(texts, at) == PySlice(texts, at, at + BATCH)

\* lines 141-147: the batches from offset `at` on, their embeddings appended.
RECURSIVE embed_from(_, _)
embed_from(texts, at) ==
    IF at >= Len(texts) THEN <<>>
    ELSE Embedding_create(BatchOf(texts, at)) \o embed_from(texts, at + BATCH)

\* embed_many when no call raises: both strategies give the same list.
embed_many(texts) == embed_from(texts, 0)

\* Variant that decides the strategy at each call from what is available then.
StrategyOf_PerCall(use_openai_field, cfg) ==
    IF cfg.openai_lib /\ cfg.api_key THEN "openai" ELSE "local"

\* line 137: embed_many branches on the field the constructor has set.
StrategyOf(use_openai_field, cfg) == IF use_openai_field THEN "openai" ELSE "local"

\* The constructor's arguments (use_openai, a truthy openai_api_key) and
\* whether the openai and sentence_transformers imports succeeded.
EmbedderConfigs ==
    [use_openai : BOOLEAN, api_key : BOOLEAN, openai_lib : BOOLEAN, st_lib : BOOLEAN]

\* lines 122-134: Embedder.__init__.
Embedder_Init ==
    /\ epc = "new"
    /\ \E cfg \in EmbedderConfigs :
        /\ emb_cfg' = cfg
        /\ self_use_openai' = (cfg.use_openai /\ cfg.openai_lib /\ cfg.api_key)
        /\ epc' = IF ~(cfg.use_openai /\ cfg.openai_lib /\ cfg.api_key) /\ ~cfg.st_lib
                  THEN "config_error" ELSE "ready"
    /\ UNCHANGED <<embed_texts, embed_i, results, strategies_used>>
    /\ UNCHANGED <<chunkVars, ingestVars, queryVars, log, quizVars, filesVars, last_add, engineVars>>

\* The texts of a call: n texts, all different or all the same.
InputTexts(n, same) == [k \in 1..n |-> IF same THEN <<"a">> ELSE [j \in 1..k |-> "a"]]

\* lines 136-140 and 148-151: the call enters the branch of the strategy; the
\* local strategy encodes all texts in one call, which may raise.
Embed_Call ==
    /\ epc = "ready"
    /\ \E n \in 0..MaxEmbed, same \in BOOLEAN :
        /\ embed_texts' = InputTexts(n, same)
        /\ IF StrategyOf(self_use_openai, emb_cfg) = "openai"
           THEN /\ results' = <<>>
                /\ embed_i' = 0
                /\ epc' = "batching"
                /\ log' = <<>>
           ELSE /\ log' = <<Call("model.encode", n)>>
                /\ UNCHANGED embed_i
                /\ \/ /\ results' = model_encode(InputTexts(n, same))
                      /\ epc' = "returned"
                   \/ /\ epc' = "raised"
                      /\ UNCHANGED results
    /\ strategies_used' = strategies_used \cup {StrategyOf(self_use_openai, emb_cfg)}
    /\ UNCHANGED <<emb_cfg, self_use_openai>>
    /\ UNCHANGED <<chunkVars, ingestVars, queryVars, quizVars, filesVars, last_add, engineVars>>

\* lines 141-146: one iteration of the batch loop; the API call may raise.
Embed_Batch ==
    /\ epc = "batching"
    /\ embed_i < Len(embed_texts)
    /\ log' = Append(log, Call("openai.Embedding.create", Len(BatchOf(embed_texts, embed_i))))
    /\ \/ /\ results' = results \o Embedding_create(BatchOf(embed_texts, embed_i))
          /\ embed_i' = embed_i + BATCH
          /\ UNCHANGED epc
       \/ /\ epc' = "raised"
          /\ UNCHANGED <<results, embed_i>>
    /\ UNCHANGED <<emb_cfg, self_use_openai, embed_texts, strategies_used>>
    /\ UNCHANGED <<chunkVars, ingestVars, queryVars, quizVars, filesVars, last_add, engineVars>>

\* line 147: the range is exhausted and results is returned.
Embed_LoopExit ==
    /\ epc = "batching"
    /\ ~(embed_i < Len(embed_texts))
    /\ epc' = "returned"
    /\ UNCHANGED <<emb_cfg, self_use_openai, embed_texts, embed_i, results, strategies_used>>
    /\ UNCHANGED <<chunkVars, ingestVars, queryVars, log, quizVars, filesVars, last_add, engineVars>>

\* The caller takes the vectors (or the exception); the object stays.
Embed_Return ==
    /\ epc \in {"returned", "raised"}
    /\ epc' = "ready"
    /\ embed_texts' = <<>>
    /\ embed_i' = 0
    /\ results' = <<>>
    /\ log' = <<>>
    /\ UNCHANGED <<emb_cfg, self_use_openai, strategies_used>>
    /\ UNCHANGED <<chunkVars, ingestVars, queryVars, quizVars, filesVars, last_add, engineVars>>

\* ---------------------------------------------------- process_single_file
PageTexts == {<<>>, <<" ">>, <<"a">>, <<" ", "a", "b">>, <<"a", "b", "a">>}
PageContents == {Page(t) : t \in PageTexts} \cup {BadPage}
PagedFiles ==
    {[suffix |-> s, pages |-> p] :
        s \in {".pdf", ".pptx", ".docx"}, p \in SeqsUpTo(PageContents, MaxPages)}
FlatFiles ==
    {[suffix |-> s, pages |-> <<Page(t)>>] : s \in {".md", ".txt"}, t \in PageTexts}

\* The two-page document of the end-to-end example: page 1 holds 1000 tokens
\* (400 of "a", then 400 of "b", then 200 of "a", so that every window of it is
\* told apart by its content), page 2 is empty.
ExamplePage1 ==
    [k \in 1..1000 |-> IF k <= 400 THEN "a" ELSE IF k <= 800 THEN "b" ELSE "a"]
ExampleFile == [suffix |-> ".pdf", pages |-> <<Page(ExamplePage1), Page(<<>>)>>]
DefaultMaxTokens == 500
DefaultOverlap == 100

IngestInputs ==
    {[file |-> f, M |-> M, O |-> O] :
        f \in PagedFiles \cup FlatFiles, M \in 1..MaxTokens, O \in 0..MaxTokens}
    \cup {[file |-> ExampleFile, M |-> DefaultMaxTokens, O |-> DefaultOverlap]}

\* Variant in which an unsupported suffix is an error.
SkipOutcome_Raise == "raised"

\* lines 220-222: an unsupported suffix is warned about and the call returns.
SkipOutcome == "done"

\* lines 210-226: dispatch on the suffix and extract the parts.
PSF_Enter(inp) ==
    /\ path' = inp.file
    /\ max_tokens' = inp.M
    /\ overlap' = inp.O
    /\ all_chunks' = <<>>
    /\ all_metadatas' = <<>>
    /\ all_ids' = <<>>
    /\ seg' = 1
    /\ CASE inp.file.suffix = ".pdf" ->
              /\ parts' = extract_text_from_pdf(inp.file.pages)
              /\ ipc' = "parts"
              /\ UNCHANGED psf_result
         [] inp.file.suffix = ".pptx" ->
              IF pptx_raises(inp.file.pages)
              THEN /\ ipc' = "raised"
                   /\ UNCHANGED <<parts, psf_result>>
              ELSE /\ parts' = extract_text_from_pptx(inp.file.pages)
                   /\ ipc' = "parts"
                   /\ UNCHANGED psf_result
         [] inp.file.suffix \in {".md", ".txt"} ->
              /\ parts' = extract_text_from_txt_or_md(inp.file.pages)
              /\ ipc' = "parts"
              /\ UNCHANGED psf_result
         [] OTHER ->
              /\ psf_result' = 0
              /\ ipc' = SkipOutcome
              /\ UNCHANGED parts
    /\ UNCHANGED <<text, tokens, step, i, chunks, cpc, next_uid, coll>>

PSF_Call ==
    /\ ipc = "idle"
    /\ cpc = "idle"
    /\ \E inp \in IngestInputs : PSF_Enter(inp)
    /\ log' = <<>>
    /\ UNCHANGED <<queryVars, quizVars, moreVars>>

\* lines 228-231: the next segment is skipped when blank, else chunked.
PSF_Segment ==
    /\ ipc = "parts"
    /\ seg <= Len(parts)
    /\ IF IsBlank(parts[seg].text)
       THEN /\ seg' = seg + 1
            /\ UNCHANGED <<chunkVars, ipc>>
       ELSE /\ ChunkEnter(parts[seg].text, max_tokens, overlap)
            /\ ipc' = "chunking"
            /\ UNCHANGED seg
    /\ UNCHANGED <<path, parts, all_chunks, all_metadatas, all_ids, next_uid, coll, psf_result>>
    /\ UNCHANGED <<queryVars, log, quizVars, moreVars>>

\* line 234-240: the metadata of chunk k (0-based) of a segment.
Metadata(p, page_idx, k) ==
    [course_id |-> "course", lecture_id |-> "lecture", source |-> p.suffix,
     page_or_slide |-> page_idx, chunk_index |-> k]

\* lines 232-243: the chunks of the segment are collected, each under a fresh uuid.
PSF_Collect ==
    /\ ipc = "chunking"
    /\ cpc = "returned"
    /\ all_chunks' = all_chunks \o chunks
    /\ all_metadatas' = all_metadatas \o
           [k \in 1..Len(chunks) |-> Metadata(path, parts[seg].page, k - 1)]
    /\ all_ids' = all_ids \o [k \in 1..Len(chunks) |-> next_uid + k - 1]
    /\ next_uid' = next_uid + Len(chunks)
    /\ seg' = seg + 1
    /\ cpc' = "idle"
    /\ ipc' = "parts"
    /\ UNCHANGED <<text, max_tokens, overlap, tokens, step, i, chunks, path, parts, coll,
                   psf_result>>
    /\ UNCHANGED <<queryVars, log, quizVars, moreVars>>

\* insert_chunks_to_collection: coll.add of entries none of whose ids is in
\* the collection.
insert_chunks_to_collection(c, ids, documents, metadatas, embeddings) ==
    c \o [k \in 1..Len(ids) |->
            [id |-> ids[k], document |-> documents[k], metadata |-> metadatas[k],
             embedding |-> embeddings[k]]]

\* lines 245-254: nothing to embed, or embed and insert; the embedding call may raise.
PSF_Finish ==
    /\ ipc = "parts"
    /\ seg > Len(parts)
    /\ IF all_chunks = <<>>
       THEN /\ psf_result' = 0
            /\ ipc' = "done"
            /\ UNCHANGED <<coll, log>>
       ELSE \/ /\ coll' = insert_chunks_to_collection(coll, all_ids, all_chunks,
                                                     all_metadatas, embed_many(all_chunks))
               /\ log' = log \o <<Call("embed_many", all_chunks), Call("coll.add", all_ids)>>
               /\ psf_result' = Len(all_chunks)
               /\ ipc' = "done"
            \/ /\ log' = Append(log, Call("embed_many", all_chunks))
               /\ ipc' = "raised"
               /\ UNCHANGED <<coll, psf_result>>
    /\ UNCHANGED <<chunkVars, path, parts, seg, all_chunks, all_metadatas, all_ids, next_uid>>
    /\ UNCHANGED <<queryVars, quizVars, moreVars>>

\* ------------------------------------------------------------- ingest_files
\* The files of a run: an unsupported suffix, a PDF with a page that fails, a
\* text file, a blank PDF, a deck with a slide that fails, a deck.
IngestFiles ==
    { [suffix |-> ".docx", pages |-> <<Page(<<"a">>)>>],
      [suffix |-> ".pdf", pages |-> <<Page(<<"a", "b", "a">>), BadPage>>],
      [suffix |-> ".txt", pages |-> <<Page(<<" ", "a", "b">>)>>],
      [suffix |-> ".pdf", pages |-> <<Page(<<" ">>)>>],
      [suffix |-> ".pptx", pages |-> <<Page(<<"a">>), BadPage>>],
      [suffix |-> ".pptx", pages |-> <<Page(<<"a">>)>>] }
FileParams == {[M |-> 2, O |-> 1], [M |-> 3, O |-> 0]}

\* lines 270-278: the client, the collection and the embedder are made (the
\* Embedder constructor may raise), total starts at 0.
Files_Call ==
    /\ fpc = "idle"
    /\ ipc = "idle"
    /\ \E ps \in SeqsUpTo(IngestFiles, MaxFiles), prm \in FileParams :
        /\ paths' = ps
        /\ max_tokens' = prm.M
        /\ overlap' = prm.O
    /\ total' = 0
    /\ file_idx' = 1
    /\ file_results' = <<>>
    /\ log' = <<>>
    /\ \/ fpc' = "loop"
       \/ fpc' = "config_error"
    /\ UNCHANGED persisted
    /\ UNCHANGED <<text, tokens, step, i, chunks, cpc, ingestVars>>
    /\ UNCHANGED <<queryVars, quizVars, embedVars, last_add, engineVars>>

\* line 280: process_single_file is called on the next path.
Files_Process ==
    /\ fpc = "loop"
    /\ ipc = "idle"
    /\ file_idx <= Len(paths)
    /\ PSF_Enter([file |-> paths[file_idx], M |-> max_tokens, O |-> overlap])
    /\ UNCHANGED <<queryVars, log, quizVars, moreVars>>

\* lines 280-282: the count it returned is logged and added to total.
Files_Collect ==
    /\ fpc = "loop"
    /\ ipc = "done"
    /\ total' = total + psf_result
    /\ file_results' = Append(file_results, psf_result)
    /\ file_idx' = file_idx + 1
    /\ ipc' = "idle"
    /\ psf_result' = None
    /\ parts' = <<>>
    /\ seg' = 1
    /\ all_chunks' = <<>>
    /\ all_metadatas' = <<>>
    /\ all_ids' = <<>>
    /\ UNCHANGED <<path, next_uid, coll, paths, persisted, fpc>>
    /\ UNCHANGED <<chunkVars, queryVars, log, quizVars, embedVars, last_add, engineVars>>

\* An exception of process_single_file leaves ingest_files through line 280:
\* client.persist() of line 287 is not reached. Whether the collection is
\* written to persist_directory then is left to the client's finalizer.
Files_Propagate ==
    /\ fpc = "loop"
    /\ ipc = "raised"
    /\ fpc' = "raised"
    /\ \/ persisted' = coll
       \/ UNCHANGED persisted
    /\ UNCHANGED <<paths, file_idx, total, file_results>>
    /\ UNCHANGED <<chunkVars, ingestVars, queryVars, log, quizVars, embedVars, last_add, engineVars>>

\* lines 285-292: after the loop client.persist() is tried, an exception of it
\* is passed over, and total is returned.
Files_Persist ==
    /\ fpc = "loop"
    /\ ipc = "idle"
    /\ file_idx > Len(paths)
    /\ \/ persisted' = coll
       \/ UNCHANGED persisted
    /\ fpc' = "done"
    /\ UNCHANGED <<paths, file_idx, total, file_results>>
    /\ UNCHANGED <<chunkVars, ingestVars, queryVars, log, quizVars, embedVars, last_add, engineVars>>

\* --------------------------------------------------- the collection's add
\* What coll.add does with an id the collection already holds: the legacy
\* client raises, later clients leave the stored entry and drop the new one.
AddOnPresentId == {"raise", "ignore"}
IdPresent(c, id) == \E j \in 1..Len(c) : c[j].id = id

\* insert_chunks_to_collection called with one chunk.
Index_Add ==
    /\ \E id \in 1..MaxIds, doc \in {<<"a">>, <<"b">>} :
        IF IdPresent(coll, id)
        THEN /\ \E out \in AddOnPresentId :
                  last_add' = [id |-> id, document |-> doc, present |-> TRUE,
                               raised |-> (out = "raise")]
             /\ UNCHANGED coll
        ELSE /\ coll' = insert_chunks_to_collection(coll, <<id>>, <<doc>>,
                            <<Metadata([suffix |-> ".txt"], None, 0)>>, embed_many(<<doc>>))
             /\ last_add' = [id |-> id, document |-> doc, present |-> FALSE, raised |-> FALSE]
    /\ UNCHANGED <<path, parts, seg, all_chunks, all_metadatas, all_ids, next_uid, psf_result, ipc>>
    /\ UNCHANGED <<chunkVars, queryVars, log, quizVars, embedVars, filesVars, engineVars>>

\* ------------------------------------------------- EnhancedQueryEngine.query
Questions == {<<"a">>, <<"b", "a">>}
\* What the language model may answer to the rewriting prompt.
RewriteTexts == {<<"a">>, <<" ", "b", " ">>, <<" ">>, <<>>}
\* A completion text, and the outcome of an llm.complete that raised.
TextReply(t) == [kind |-> "text", value |-> t]
LLMError == [kind |-> "raised", value |-> <<>>]
Answers == {<<"a">>, <<"b">>}
\* Similarity scores in hundredths.
Scores == {40, 70, 71, 85}
similarity_top_k == 5
Threshold == 70

\* Variant whose handler returns the empty string.
rewrite_query_EmptyOnError(original_query, raises, reply) ==
    IF raises THEN <<>> ELSE strip(reply)

\* QueryRewriter.rewrite_query: the stripped completion, or the original query
\* when the model call raises.
rewrite_query(original_query, raises, reply) ==
    IF raises THEN original_query ELSE strip(reply)

\* The retrieval results the index may give back: min(top_k, size) distinct
\* entries of the collection, each with a score, best first.
Retrievals(c) ==
    LET n == Min(similarity_top_k, Len(c))
    IN  {ns \in [1..n -> [entry : 1..Len(c), score : Scores]] :
            /\ \A a, b \in 1..n : a < b => ns[a].entry # ns[b].entry
            /\ \A a, b \in 1..n : a < b => ns[a].score >= ns[b].score}
SourceNodes(c, ns) ==
    [k \in 1..Len(ns) |-> [text |-> c[ns[k].entry].document, score |-> ns[k].score]]

\* Variant of line 122 with `>=` for `>`.
is_low_confidence_AtLeast(resp) ==
    IF resp.source_nodes = <<>> THEN TRUE
    ELSE ~(\E k \in 1..Len(resp.source_nodes) : resp.source_nodes[k].score >= Threshold)

\* _is_low_confidence, lines 117-125.
is_low_confidence(resp) ==
    IF resp.source_nodes = <<>> THEN TRUE
    ELSE ~(\E k \in 1..Len(resp.source_nodes) : resp.source_nodes[k].score > Threshold)

\* ------------------------------ YouTubeSearcher.search_educational_videos
\* What search().list(...).execute() gives: it raises, or it returns items; an
\* item lacking a key the loop reads (id.videoId, snippet.title, ...) is malformed.
SearchError == [raised |-> TRUE, items |-> <<>>]
SearchItems(its) == [raised |-> FALSE, items |-> its]
GoodItem(v) == [ok |-> TRUE, id |-> v]
BadItem == [ok |-> FALSE, id |-> "v0"]
SearchOutcomes ==
    {SearchError} \cup {SearchItems(its) : its \in SeqsUpTo({GoodItem("v1"), GoodItem("v2"), BadItem}, 2)}
\* lines 42-49 of youtube_search.py: the dictionary built for one item.
VideoOf(item) == [id |-> item.id, url |-> <<"https://www.youtube.com/watch?v=", item.id>>]

\* The videos appended before the first malformed item.
RECURSIVE VideosBuilt(_)
VideosBuilt(its) ==
    IF its = <<>> \/ ~Head(its).ok THEN <<>>
    ELSE <<VideoOf(Head(its))>> \o VideosBuilt(Tail(its))

\* Variant whose handler returns the list built so far.
search_educational_videos_Partial(outcome) ==
    IF outcome.raised THEN <<>> ELSE VideosBuilt(outcome.items)

\* lines 21-54 of youtube_search.py: the whole body is inside try; any
\* exception (the API call, a KeyError on an item) ends in `return []`.
search_educational_videos(outcome) ==
    IF outcome.raised \/ (\E k \in 1..Len(outcome.items) : ~outcome.items[k].ok)
    THEN <<>>
    ELSE VideosBuilt(outcome.items)

VideoLists == {search_educational_videos(o) : o \in SearchOutcomes}

\* Variant of line 92 that searches with the rewritten query.
EnrichmentQuery_Rewritten(q, rewritten) == rewritten

\* line 92: what search_educational_videos is called with.
EnrichmentQuery(q, rewritten) == q

\* Variant that also searches once a quiz has been stored.
WantsVideos_AfterQuiz(gv, resp) == gv \/ is_low_confidence(resp) \/ quiz_store # <<>>

\* line 91: whether the video search runs.
WantsVideos(gv, resp) == gv \/ is_low_confidence(resp)

Query_Call ==
    /\ qpc = "idle"
    /\ \E q \in Questions, gv \in BOOLEAN :
        /\ question' = q
        /\ get_videos' = gv
    /\ log' = <<>>
    /\ qpc' = "rewrite"
    /\ UNCHANGED <<rewrite_reply, rewritten_query, response, search_outcome, result>>
    /\ UNCHANGED <<chunkVars, ingestVars, quizVars, moreVars>>

\* line 77: the rewriter is called with the question.
Query_Rewrite ==
    /\ qpc = "rewrite"
    /\ \E raises \in BOOLEAN, reply \in RewriteTexts :
        /\ rewrite_reply' = IF raises THEN LLMError ELSE TextReply(reply)
        /\ rewritten_query' = rewrite_query(question, raises, reply)
    /\ log' = Append(log, Call("rewrite_query", question))
    /\ qpc' = "retrieve"
    /\ UNCHANGED <<question, get_videos, response, search_outcome, result>>
    /\ UNCHANGED <<chunkVars, ingestVars, quizVars, moreVars>>

\* Variant of line 82 that retrieves with the question as asked.
RetrievalQuery_Original(q, rewritten) == q

\* line 82: what query_engine.query is called with.
RetrievalQuery(q, rewritten) == rewritten

\* line 82: retrieval and answer synthesis on the rewritten query; either may raise.
Query_Retrieve ==
    /\ qpc = "retrieve"
    /\ log' = Append(log, Call("query_engine.query", RetrievalQuery(question, rewritten_query)))
    /\ \/ /\ qpc' = "raised"
          /\ UNCHANGED response
       \/ /\ \E ns \in Retrievals(coll), ans \in Answers :
                response' = [answer |-> ans, source_nodes |-> SourceNodes(coll, ns)]
          /\ qpc' = "enrich"
    /\ UNCHANGED <<question, get_videos, rewrite_reply, rewritten_query, search_outcome, result>>
    /\ UNCHANGED <<chunkVars, ingestVars, quizVars, moreVars>>

\* lines 84-94: the result is built; the video search runs when wanted and
\* gives [] when it fails.
Query_Finish ==
    /\ qpc = "enrich"
    /\ IF WantsVideos(get_videos, response)
       THEN /\ log' = Append(log, Call("search_educational_videos",
                                       EnrichmentQuery(question, rewritten_query)))
            /\ \E o \in SearchOutcomes :
                 /\ search_outcome' = o
                 /\ result' = [answer |-> response.answer,
                               source_nodes |-> response.source_nodes,
                               videos |-> search_educational_videos(o)]
       ELSE /\ result' = [answer |-> response.answer,
                          source_nodes |-> response.source_nodes, videos |-> <<>>]
            /\ UNCHANGED <<log, search_outcome>>
    /\ qpc' = "done"
    /\ UNCHANGED <<question, get_videos, rewrite_reply, rewritten_query, response>>
    /\ UNCHANGED <<chunkVars, ingestVars, quizVars, moreVars>>

\* The caller takes the result (or the exception); the call's frame is gone.
Query_Return ==
    /\ qpc \in {"done", "raised"}
    /\ qpc' = "idle"
    /\ question' = <<>>
    /\ get_videos' = FALSE
    /\ rewrite_reply' = LLMError
    /\ rewritten_query' = <<>>
    /\ response' = None
    /\ search_outcome' = SearchError
    /\ result' = None
    /\ log' = <<>>
    /\ UNCHANGED <<chunkVars, ingestVars, quizVars, moreVars>>

\* ------------------------------------------------ QuizGenerator.generate_quiz
\* The text of a completion: JSON text of a value, or text that is not JSON.
JsonText(v) == [kind |-> "json", value |-> v]
NotJson == [kind |-> "garbage", value |-> <<>>]
json_dumps(v) == JsonText(v)
\* Variant that takes any text for JSON.
json_valid_Lenient(t) == TRUE
\* json.loads(t) returns (json_valid) a value (json_loads), or raises.
json_valid(t) == t.kind = "json"
json_loads(t) == t.value

Options4 == <<"o1", "o2", "o3", "o4">>
Options3 == <<"o1", "o2", "o3">>
Q(opts, answer) == [question |-> "q", options |-> opts, correct_answer |-> answer]
QNoAnswer == [question |-> "q", options |-> Options4]
QuizOf(qs) == [quiz_title |-> "t", questions |-> qs]
\* What the language model may answer to the quiz prompt.
QuizCompletions ==
    { NotJson,
      JsonText(QuizOf(<<Q(Options4, 0)>>)),
      JsonText(QuizOf(<<Q(Options4, 3), Q(Options4, 1)>>)),
      JsonText(QuizOf(<<Q(Options4, 5)>>)),
      JsonText(QuizOf(<<Q(Options4, 0), QNoAnswer>>)),
      JsonText(QuizOf(<<Q(Options3, 2)>>)),
      JsonText(QuizOf(<<>>)),
      JsonText([questions |-> <<Q(Options4, 0)>>]),
      JsonText(<<>>) }
Topics == {"t1", "t2"}
Contexts == {<<"a">>}

\* QuizGenerator.generate_quiz is entered with a topic and a context.
Quiz_Enter(tp, ctx) ==
    /\ topic' = tp
    /\ context' = ctx
    /\ quiz_calls' = quiz_calls + 1
    /\ store_before' = quiz_store
    /\ gpc' = "llm"
    /\ UNCHANGED <<completion, quiz_data, quiz_result, quiz_store>>

Quiz_Call ==
    /\ gpc = "idle"
    /\ quiz_calls < MaxQuizCalls
    /\ \E tp \in Topics, ctx \in Contexts : Quiz_Enter(tp, ctx)
    /\ log' = <<>>
    /\ UNCHANGED <<chunkVars, ingestVars, queryVars, moreVars>>

\* lines 33-38: the completion and json.loads; the handler of lines 43-45
\* turns an exception of either into None.
Quiz_Complete ==
    /\ gpc = "llm"
    /\ log' = Append(log, Call("llm.complete", topic))
    /\ \/ /\ completion' = LLMError
          /\ quiz_result' = None
          /\ gpc' = "done"
          /\ UNCHANGED quiz_data
       \/ \E t \in QuizCompletions :
            /\ completion' = t
            /\ IF json_valid(t)
               THEN /\ quiz_data' = json_loads(t)
                    /\ gpc' = "save"
                    /\ UNCHANGED quiz_result
               ELSE /\ quiz_result' = None
                    /\ gpc' = "done"
                    /\ UNCHANGED quiz_data
    /\ UNCHANGED <<topic, context, quiz_store, store_before, quiz_calls>>
    /\ UNCHANGED <<chunkVars, ingestVars, queryVars, moreVars>>

\* database.save_quiz: one row (topic, json.dumps(questions)) is inserted.
save_quiz(store, tp, questions) ==
    Append(store, [topic |-> tp, questions |-> json_dumps(questions)])

\* Variant in which a failed save does not stop the return of the data.
ResultOnSaveError_Data(data) == data

\* What generate_quiz returns when save_quiz raised: the handler's None.
ResultOnSaveError(data) == None

\* lines 40-45: save_quiz, then the return of the parsed data; a save that
\* raises leaves the table as it was and the handler returns None.
Quiz_Save ==
    /\ gpc = "save"
    /\ log' = Append(log, Call("save_quiz", topic))
    /\ \/ /\ quiz_store' = save_quiz(quiz_store, topic, quiz_data)
          /\ quiz_result' = quiz_data
       \/ /\ quiz_result' = ResultOnSaveError(quiz_data)
          /\ UNCHANGED quiz_store
    /\ gpc' = "done"
    /\ UNCHANGED <<topic, context, completion, quiz_data, store_before, quiz_calls>>
    /\ UNCHANGED <<chunkVars, ingestVars, queryVars, moreVars>>

\* The caller takes the result; the call's frame is gone, the table stays.
Quiz_Return ==
    /\ gpc = "done"
    /\ gpc' = "idle"
    /\ topic' = "t1"
    /\ context' = <<>>
    /\ completion' = LLMError
    /\ quiz_data' = None
    /\ quiz_result' = None
    /\ store_before' = quiz_store
    /\ log' = <<>>
    /\ UNCHANGED <<quiz_store, quiz_calls>>
    /\ UNCHANGED <<chunkVars, ingestVars, queryVars, moreVars>>

\* ---------------------------------------- EnhancedQueryEngine.generate_quiz
\* A context the caller supplies (anything but None).
Supplied(ctx) == [none |-> FALSE, value |-> ctx]
ContextArgs == {None, Supplied(<<>>), Supplied(<<"a">>)}

NL == "\n"

\* Variant of line 103 that joins without the separator.
RECURSIVE JoinLines_NoSeparator(_)
JoinLines_NoSeparator(ts) ==
    IF ts = <<>> THEN <<>> ELSE Head(ts) \o JoinLines_NoSeparator(Tail(ts))

\* line 103: "\n".join(texts)
RECURSIVE JoinLines(_)
JoinLines(ts) ==
    IF ts = <<>> THEN <<>>
    ELSE IF Len(ts) = 1 THEN Head(ts)
    ELSE Head(ts) \o <<NL>> \o JoinLines(Tail(ts))

\* line 103: [node.text for node in retrieval_response.source_nodes]
NodeTexts(c, ns) == [k \in 1..Len(ns) |-> c[ns[k].entry].document]

\* lines 96-100: the call and its test of the context argument.
EQ_Call ==
    /\ eqpc = "idle"
    /\ gpc = "idle"
    /\ quiz_calls < MaxQuizCalls
    /\ \E tp \in Topics, arg \in ContextArgs :
        /\ topic' = tp
        /\ context_arg' = arg
        /\ eqpc' = IF arg = None THEN "retrieve" ELSE "delegate"
    /\ log' = <<>>
    /\ UNCHANGED retrieval_response
    /\ UNCHANGED <<context, completion, quiz_data, quiz_result, quiz_store, store_before,
                   quiz_calls, gpc>>
    /\ UNCHANGED <<chunkVars, ingestVars, queryVars, embedVars, filesVars, last_add>>

\* line 102: self.query_engine.query(topic) retrieves and, when nodes were
\* found, has the language model synthesize an answer over them; either may raise.
EQ_Retrieve ==
    /\ eqpc = "retrieve"
    /\ \/ /\ log' = Append(log, Call("query_engine.query", topic))
          /\ eqpc' = "raised"
          /\ UNCHANGED retrieval_response
       \/ \E ns \in Retrievals(coll) :
            /\ retrieval_response' = NodeTexts(coll, ns)
            /\ log' = IF ns = <<>>
                      THEN Append(log, Call("query_engine.query", topic))
                      ELSE log \o <<Call("query_engine.query", topic),
                                    Call("llm.synthesize", topic)>>
            /\ eqpc' = "delegate"
    /\ UNCHANGED context_arg
    /\ UNCHANGED <<chunkVars, ingestVars, queryVars, quizVars, embedVars, filesVars, last_add>>

\* lines 103-105: the context is the joined texts, or the one supplied, and
\* the quiz generator is called with it.
EQ_Delegate ==
    /\ eqpc = "delegate"
    /\ Quiz_Enter(topic, IF context_arg = None THEN JoinLines(retrieval_response)
                         ELSE context_arg.value)
    /\ eqpc' = "generating"
    /\ UNCHANGED <<context_arg, retrieval_response, log>>
    /\ UNCHANGED <<chunkVars, ingestVars, queryVars, embedVars, filesVars, last_add>>

\* The caller takes what the generator returned (or the exception of the
\* retrieval); the frames are gone, the table stays.
EQ_Return ==
    /\ \/ eqpc = "generating" /\ gpc = "done"
       \/ eqpc = "raised"
    /\ eqpc' = "idle"
    /\ context_arg' = None
    /\ retrieval_response' = <<>>
    /\ gpc' = "idle"
    /\ topic' = "t1"
    /\ context' = <<>>
    /\ completion' = LLMError
    /\ quiz_data' = None
    /\ quiz_result' = None
    /\ store_before' = quiz_store
    /\ log' = <<>>
    /\ UNCHANGED <<quiz_store, quiz_calls>>
    /\ UNCHANGED <<chunkVars, ingestVars, queryVars, embedVars, filesVars, last_add>>

\* ------------------------------------------------------------ specification
\* A collection that earlier ingestion runs left behind.
IndexedCollections ==
    {insert_chunks_to_collection(<<>>, [k \in 1..Len(ts) |-> k], ts,
                                 [k \in 1..Len(ts) |-> Metadata([suffix |-> ".txt"], None, k - 1)],
                                 embed_many(ts)) :
        ts \in SeqsUpTo({<<"a">>, <<"b">>}, MaxIndexed)}

InitWith(c) ==
    /\ text = <<>>
    /\ max_tokens = 1
    /\ overlap = 0
    /\ tokens = <<>>
    /\ step = 1
    /\ i = 0
    /\ chunks = <<>>
    /\ cpc = "idle"
    /\ path = [suffix |-> ".docx", pages |-> <<>>]
    /\ parts = <<>>
    /\ seg = 1
    /\ all_chunks = <<>>
    /\ all_metadatas = <<>>
    /\ all_ids = <<>>
    /\ next_uid = 1
    /\ coll = c
    /\ psf_result = None
    /\ ipc = "idle"
    /\ question = <<>>
    /\ get_videos = FALSE
    /\ rewrite_reply = LLMError
    /\ rewritten_query = <<>>
    /\ response = None
    /\ search_outcome = SearchError
    /\ result = None
    /\ qpc = "idle"
    /\ log = <<>>
    /\ topic = "t1"
    /\ context = <<>>
    /\ completion = LLMError
    /\ quiz_data = None
    /\ quiz_result = None
    /\ quiz_store = <<>>
    /\ store_before = <<>>
    /\ quiz_calls = 0
    /\ gpc = "idle"
    /\ emb_cfg = [use_openai |-> TRUE, api_key |-> FALSE, openai_lib |-> FALSE, st_lib |-> FALSE]
    /\ self_use_openai = FALSE
    /\ embed_texts = <<>>
    /\ embed_i = 0
    /\ results = <<>>
    /\ strategies_used = {}
    /\ epc = "new"
    /\ paths = <<>>
    /\ file_idx = 1
    /\ total = 0
    /\ file_results = <<>>
    /\ persisted = c
    /\ fpc = "idle"
    /\ last_add = None
    /\ context_arg = None
    /\ retrieval_response = <<>>
    /\ eqpc = "idle"

Init == InitWith(<<>>)

NextChunk ==
    \/ ChunkCall
    \/ ChunkLoop
    \/ ChunkReturn

SpecChunk == Init /\ [][NextChunk]_vars

\* The interpreter keeps running the loop: an iteration that can be taken is
\* taken, and the return is taken once the loop condition fails.
SpecChunkFair == SpecChunk /\ WF_vars(ChunkLoop) /\ WF_vars(ChunkReturn)

NextIngest ==
    \/ PSF_Call
    \/ PSF_Segment
    \/ ChunkLoop
    \/ ChunkReturn
    \/ PSF_Collect
    \/ PSF_Finish

SpecIngest == Init /\ [][NextIngest]_vars

\* The query engine over a collection that ingestion has filled (or left empty).
InitQuery == \E c \in IndexedCollections : InitWith(c)

NextQuery ==
    \/ Query_Call
    \/ Query_Rewrite
    \/ Query_Retrieve
    \/ Query_Finish
    \/ Query_Return

SpecQuery == InitQuery /\ [][NextQuery]_vars

NextQuiz ==
    \/ Quiz_Call
    \/ Quiz_Complete
    \/ Quiz_Save
    \/ Quiz_Return

SpecQuiz == Init /\ [][NextQuiz]_vars

NextEmbed ==
    \/ Embedder_Init
    \/ Embed_Call
    \/ Embed_Batch
    \/ Embed_LoopExit
    \/ Embed_Return

SpecEmbed == Init /\ [][NextEmbed]_vars

NextIndex == Index_Add

SpecIndex == Init /\ [][NextIndex]_vars

NextIngestFiles ==
    \/ Files_Call
    \/ Files_Process
    \/ PSF_Segment
    \/ ChunkLoop
    \/ ChunkReturn
    \/ PSF_Collect
    \/ PSF_Finish
    \/ Files_Collect
    \/ Files_Propagate
    \/ Files_Persist

SpecIngestFiles == Init /\ [][NextIngestFiles]_vars

\* generate_quiz of the engine over a collection that ingestion has filled.
NextEngineQuiz ==
    \/ EQ_Call
    \/ EQ_Retrieve
    \/ EQ_Delegate
    \/ Quiz_Complete
    \/ Quiz_Save
    \/ EQ_Return

SpecEngineQuiz == InitQuery /\ [][NextEngineQuiz]_vars

\* One engine serving queries and quiz generations one after the other, as the
\* chat page and the quiz page of app.py call it.
Session_Query ==
    /\ eqpc = "idle"
    /\ Query_Call

Session_Quiz ==
    /\ qpc = "idle"
    /\ quiz_calls < MaxSessionQuizzes
    /\ EQ_Call

InitSession == \E c \in {d \in IndexedCollections : Len(d) = 1} : InitWith(c)

NextSession ==
    \/ Session_Query
    \/ Query_Rewrite
    \/ Query_Retrieve
    \/ Query_Finish
    \/ Query_Return
    \/ Session_Quiz
    \/ EQ_Retrieve
    \/ EQ_Delegate
    \/ Quiz_Complete
    \/ Quiz_Save
    \/ EQ_Return

SpecSession == InitSession /\ [][NextSession]_vars

\* ======================================================================
\* Properties
\* ======================================================================

\* ---------------------------------------------------------------- chunker
TokenCount(chunk) == Len(enc_encode(chunk))
LastTokens(chunk, n) ==
    SubSeq(enc_encode(chunk), TokenCount(chunk) - n + 1, TokenCount(chunk))
FirstTokens(chunk, n) == SubSeq(enc_encode(chunk), 1, n)

\* C1: for max_tokens > overlap >= 0 every returned chunk holds at most
\* max_tokens tokens, and every pair of consecutive chunks whose later chunk
\* is not the last one shares exactly overlap tokens: the last overlap tokens
\* of the earlier chunk are the first overlap tokens of the later one.
C1_BudgetAndOverlap ==
    (cpc = "returned" /\ max_tokens > overlap) =>
        /\ \A k \in 1..Len(chunks) : TokenCount(chunks[k]) <= max_tokens
        /\ \A k \in 1..(Len(chunks) - 1) :
              (k + 1 # Len(chunks)) =>
                  /\ TokenCount(chunks[k]) >= overlap
                  /\ TokenCount(chunks[k + 1]) >= overlap
                  /\ LastTokens(chunks[k], overlap) = FirstTokens(chunks[k + 1], overlap)

\* C2: the empty text gives zero chunks, and a non-empty text of fewer than
\* max_tokens tokens (overlap < max_tokens) gives exactly one chunk.
C2_EmptyAndShortTexts ==
    cpc = "returned" =>
        /\ text = <<>> => chunks = <<>>
        /\ (text # <<>> /\ Len(tokens) < max_tokens /\ overlap < max_tokens)
              => Len(chunks) = 1

\* C3: a configuration with overlap >= max_tokens is rejected before any
\* tokenization or chunk production; the window loop is never entered with a
\* non-positive step.
C3_BadOverlapRejected ==
    /\ (cpc # "idle" /\ overlap >= max_tokens) => cpc = "rejected"
    /\ cpc = "loop" => step > 0

\* ----------------------------------------------------- process_single_file
WhitespaceOnly(t) == \A k \in 1..Len(t) : t[k] = " "
MetasOf(page_idx) ==
    {j \in 1..Len(all_metadatas) : all_metadatas[j].page_or_slide = page_idx}

\* C4: when process_single_file returns, a segment that is empty or
\* whitespace-only has contributed no chunk and every other segment has
\* contributed chunks carrying its locator, with chunk_index 0,1,2,...
\* restarting at 0 per segment; the return value is the number of chunks, all of
\* them inserted. The two-page example (1000 tokens, then an empty page,
\* max_tokens=500, overlap=100) gives the three windows starting at tokens 0, 400
\* and 800 of page 1, nothing from page 2, and returns 3.
C4_SegmentsAndIndices ==
    ipc = "done" =>
        /\ \A s \in 1..Len(parts) :
              WhitespaceOnly(parts[s].text) <=> (MetasOf(parts[s].page) = {})
        /\ Len(all_metadatas) = Len(all_chunks)
        /\ all_metadatas # <<>> => all_metadatas[1].chunk_index = 0
        /\ \A j \in 1..(Len(all_metadatas) - 1) :
              IF all_metadatas[j + 1].page_or_slide = all_metadatas[j].page_or_slide
              THEN all_metadatas[j + 1].chunk_index = all_metadatas[j].chunk_index + 1
              ELSE /\ all_metadatas[j + 1].chunk_index = 0
                   /\ all_metadatas[j + 1].page_or_slide > all_metadatas[j].page_or_slide
        /\ psf_result = Len(all_chunks)
        /\ Len(coll) = psf_result
        /\ \A j \in 1..Len(coll) :
              /\ coll[j].document = all_chunks[j]
              /\ coll[j].metadata = all_metadatas[j]
        /\ (path = ExampleFile /\ max_tokens = 500 /\ overlap = 100) =>
              /\ psf_result = 3
              /\ all_chunks = << SubSeq(ExamplePage1, 1, 500),
                                 SubSeq(ExamplePage1, 401, 900),
                                 SubSeq(ExamplePage1, 801, 1000) >>
              /\ \A j \in 1..3 :
                    /\ all_metadatas[j].page_or_slide = 1
                    /\ all_metadatas[j].chunk_index = j - 1

C4_Witness ==
    /\ ipc = "done"
    /\ path = ExampleFile
    /\ psf_result = 3

\* ---------------------------------------------------------- query engine
Searched == \E k \in 1..Len(log) : log[k].op = "search_educational_videos"
MaxScoreAbove(nodes, bound) == \E k \in 1..Len(nodes) : nodes[k].score > bound

\* C5: the confidence of a retrieved response is low when no chunk was
\* retrieved, and otherwise high exactly when some retrieved chunk scores
\* strictly above 0.7 (a best score of exactly 0.7 is low).
C5_ConfidenceRule ==
    qpc \in {"enrich", "done"} =>
        /\ response.source_nodes = <<>> => is_low_confidence(response)
        /\ response.source_nodes # <<>> =>
              (~is_low_confidence(response) <=> MaxScoreAbove(response.source_nodes, 70))

C5_Witness ==
    /\ qpc = "enrich"
    /\ response.source_nodes # <<>>
    /\ response.source_nodes[1].score = 70
    /\ is_low_confidence(response)

\* C6: when query returns, the video search has been called exactly when the
\* confidence is low or get_videos is set, it was called once and with the
\* original question, and when it was not called the videos list is empty.
C6_EnrichmentGate ==
    qpc = "done" =>
        /\ Searched <=>
              (get_videos \/ response.source_nodes = <<>>
                  \/ ~MaxScoreAbove(response.source_nodes, 70))
        /\ \A k \in 1..Len(log) :
              log[k].op = "search_educational_videos" =>
                  /\ log[k].arg = question
                  /\ k = Len(log)
        /\ ~Searched => result.videos = <<>>

C6_Witness ==
    /\ qpc = "done"
    /\ Searched
    /\ ~get_videos
    /\ rewritten_query # question

\* --------------------------------------------------------- quiz generator
HasKey(v, key) == key \in DOMAIN v
WellFormedQuestion(q) ==
    /\ HasKey(q, "options")
    /\ Len(q.options) = 4
    /\ HasKey(q, "correct_answer")
    /\ q.correct_answer \in 0..(Len(q.options) - 1)
WellFormedQuiz(v) ==
    /\ HasKey(v, "quiz_title")
    /\ HasKey(v, "questions")
    /\ v.questions # <<>>
    /\ \A k \in 1..Len(v.questions) : WellFormedQuestion(v.questions[k])
SaveCalls == {k \in 1..Len(log) : log[k].op = "save_quiz"}

\* C7: when the completion parses as JSON but is not a well-formed quiz (a
\* question lacks correct_answer, or has it out of range, or has not exactly 4
\* options, or the object lacks a title or has no question), generate_quiz
\* returns None instead of the parsed data.
C7_MalformedQuizRejected ==
    (gpc = "done" /\ completion.kind = "json" /\ ~WellFormedQuiz(completion.value))
        => quiz_result = None

\* C8: every quiz held in the quiz store is well-formed.
C8_StoreWellFormed ==
    \A k \in 1..Len(quiz_store) :
        /\ quiz_store[k].questions.kind = "json"
        /\ WellFormedQuiz(quiz_store[k].questions.value)

\* C9: when the model call raised or the completion is not valid JSON,
\* generate_quiz returns None (it does not raise), save_quiz was not called and
\* the quiz store is as it was before the call.
C9_FailureLeavesStore ==
    (gpc = "done" /\ completion.kind # "json") =>
        /\ quiz_result = None
        /\ SaveCalls = {}
        /\ quiz_store = store_before

C9_Witness ==
    /\ gpc = "done"
    /\ completion = NotJson
    /\ Len(store_before) = 1
    /\ quiz_result = None

\* C10: when generate_quiz returns a quiz object, that quiz was saved under
\* the topic of the call, once, after the completion and before the return; no
\* quiz is returned when the save failed.
C10_SavedBeforeReturned ==
    (gpc = "done" /\ quiz_result # None) =>
        /\ quiz_store =
              Append(store_before, [topic |-> topic, questions |-> JsonText(quiz_result)])
        /\ Cardinality(SaveCalls) = 1
        /\ log = <<Call("llm.complete", topic), Call("save_quiz", topic)>>

C10_Witness ==
    /\ gpc = "done"
    /\ quiz_result # None
    /\ Len(store_before) = 1
    /\ Len(quiz_store) = 2

\* C11: rewrite_query gives back the original query whenever the model call
\* failed: when it raised, and when the completion is empty or whitespace-only.
C11_RewriteFallsBack ==
    (qpc = "retrieve"
        /\ (rewrite_reply.kind = "raised" \/ WhitespaceOnly(rewrite_reply.value)))
        => rewritten_query = question

\* C15: search_educational_videos never raises; when the API call failed or an
\* item was malformed the videos are the empty list (never a partly built
\* one), and otherwise there is one video per item, in order.
C15_SearchSwallowsFailures ==
    (qpc = "done" /\ Searched) =>
        IF search_outcome.raised
              \/ (\E k \in 1..Len(search_outcome.items) : ~search_outcome.items[k].ok)
        THEN result.videos = <<>>
        ELSE /\ Len(result.videos) = Len(search_outcome.items)
             /\ \A k \in 1..Len(result.videos) :
                   result.videos[k].id = search_outcome.items[k].id

C15_Witness ==
    /\ qpc = "done"
    /\ Searched
    /\ search_outcome = SearchItems(<<GoodItem("v1"), BadItem>>)
    /\ result.videos = <<>>

\* ------------------------------------------------------------ the embedder
\* C12: embed_many on N texts returns exactly N vectors, the k-th being the
\* embedding of the k-th text, for every N (0, below 16, 16, not a multiple of
\* 16): batching drops, duplicates and reorders nothing.
C12_OneVectorPerText ==
    epc = "returned" =>
        /\ Len(results) = Len(embed_texts)
        /\ \A k \in 1..Len(results) : results[k] = EmbedOne(embed_texts[k])

C12_Witness ==
    /\ epc = "returned"
    /\ self_use_openai
    /\ Len(embed_texts) = BATCH + 1
    /\ Len(log) = 2
    /\ results[BATCH + 1] = EmbedOne(embed_texts[BATCH + 1])

RemoteAvailable(cfg) == cfg.openai_lib /\ cfg.api_key
FieldStrategy == IF self_use_openai THEN "openai" ELSE "local"
OpsOf(strategy) ==
    IF strategy = "openai" THEN {"openai.Embedding.create"} ELSE {"model.encode"}

\* C13: the strategy is chosen once, in the constructor: every embed_many call
\* on the object takes the strategy the constructor recorded and calls only
\* that strategy's service; when neither the remote strategy (library and key)
\* nor the local library is available the constructor raises and no embedding
\* call is ever made.
C13_StrategyFixedAtConstruction ==
    /\ (epc # "new" /\ ~RemoteAvailable(emb_cfg) /\ ~emb_cfg.st_lib) => epc = "config_error"
    /\ epc \in {"new", "config_error"} => strategies_used = {}
    /\ epc # "new" =>
          self_use_openai = (emb_cfg.use_openai /\ RemoteAvailable(emb_cfg))
    /\ strategies_used \subseteq {FieldStrategy}
    /\ epc \in {"batching", "returned", "raised"} =>
          \A k \in 1..Len(log) : log[k].op \in OpsOf(FieldStrategy)

C13_Witness ==
    /\ epc = "returned"
    /\ ~emb_cfg.use_openai
    /\ RemoteAvailable(emb_cfg)
    /\ strategies_used = {"local"}
    /\ Len(results) = 2

\* ---------------------------------------------------------- the index store
\* C14: inserting a chunk whose id the collection already holds is an upsert:
\* the call completes, the collection holds exactly one entry for the id, and
\* that entry carries what was inserted; no id is ever held twice.
C14_InsertIsUpsert ==
    /\ \A a, b \in 1..Len(coll) : a < b => coll[a].id # coll[b].id
    /\ (last_add # None /\ last_add.present) =>
          /\ ~last_add.raised
          /\ \E j \in 1..Len(coll) : coll[j].id = last_add.id
          /\ \A j \in 1..Len(coll) :
                coll[j].id = last_add.id => coll[j].document = last_add.document

\* ------------------------------------------------------------- ingest_files
SupportedSuffix(sfx) == sfx \in {".pdf", ".pptx", ".md", ".txt"}
RECURSIVE SumOf(_)
SumOf(ns) == IF ns = <<>> THEN 0 ELSE Head(ns) + SumOf(Tail(ns))

\* C16: a file with an unsupported extension is skipped without raising:
\* process_single_file returns 0 for it, with no embedding call and no
\* insertion, and ingest_files goes on with the remaining files, so that the
\* total it returns is the sum of the counts of the supported files, all of
\* them in the collection.
C16_UnsupportedSkipped ==
    /\ [](fpc = "done" =>
            /\ Len(file_results) = Len(paths)
            /\ \A k \in 1..Len(paths) :
                  ~SupportedSuffix(paths[k].suffix) => file_results[k] = 0
            /\ total = SumOf(file_results)
            /\ total = Len(coll))
    /\ [][(fpc = "loop" /\ ipc = "idle" /\ ipc' # "idle" /\ ~SupportedSuffix(path'.suffix))
            => (ipc' = "done" /\ psf_result' = 0 /\ log' = log /\ coll' = coll)]_vars

C16_Witness ==
    /\ fpc = "done"
    /\ Len(paths) = 2
    /\ paths[1].suffix = ".docx"
    /\ paths[2].suffix = ".txt"
    /\ file_results[1] = 0
    /\ total = file_results[2]
    /\ total > 0

ExtractionFailed == path.suffix = ".pptx" /\ pptx_raises(path.pages)

\* C17: when the embedding call fails on the k-th file the error leaves
\* ingest_files, none of that file's chunks is in the index store, and the
\* chunks of the files before it are all inserted and persisted.
C17_EarlierFilesPersisted ==
    (fpc = "raised" /\ ~ExtractionFailed) =>
        /\ Len(coll) = total
        /\ \A j \in 1..Len(coll), k \in 1..Len(all_ids) : coll[j].id # all_ids[k]
        /\ persisted = coll

\* C18: extraction of a paginated document never aborts on a page or slide
\* that fails: for PDF and PPTX alike there is one segment per page, in order,
\* the k-th with locator k, a failing one with empty text; a flat file gives
\* one segment with the null locator.
C18_ExtractionNeverAborts ==
    /\ (ipc # "idle" /\ path.suffix \in {".pdf", ".pptx"}) =>
          /\ Len(parts) = Len(path.pages)
          /\ \A k \in 1..Len(parts) :
                /\ parts[k].page = k
                /\ parts[k].text = IF path.pages[k].ok THEN path.pages[k].text ELSE <<>>
    /\ (ipc # "idle" /\ path.suffix \in {".md", ".txt"}) =>
          parts = <<[text |-> path.pages[1].text, page |-> None]>>

\* ---------------------------------------- EnhancedQueryEngine.generate_quiz
\* s.split("\n")
RECURSIVE SplitLines(_)
SplitLines(s) ==
    IF \A k \in 1..Len(s) : s[k] # NL THEN <<s>>
    ELSE LET at == CHOOSE k \in 1..Len(s) : s[k] = NL /\ \A j \in 1..(k - 1) : s[j] # NL
         IN  <<SubSeq(s, 1, at - 1)>> \o SplitLines(SubSeq(s, at + 1, Len(s)))

\* C19: generate_quiz of the engine, called without a context, queries the
\* index for the topic before the quiz generator is called and hands it the
\* texts of the retrieved chunks, in retrieval order, joined by newlines; called
\* with a context, it retrieves nothing and hands on the context unchanged.
C19_ContextForQuiz ==
    eqpc = "generating" =>
        IF context_arg = None
        THEN /\ Len(log) >= 1
             /\ log[1] = Call("query_engine.query", topic)
             /\ IF retrieval_response = <<>> THEN context = <<>>
                ELSE SplitLines(context) = retrieval_response
        ELSE /\ \A j \in 1..Len(log) : log[j].op # "query_engine.query"
             /\ context = context_arg.value

C19_Witness ==
    /\ eqpc = "generating"
    /\ gpc = "done"
    /\ context_arg = None
    /\ retrieval_response = << <<"b">>, <<"a">> >>
    /\ context = <<"b", NL, "a">>

LLMCalls == Cardinality({j \in 1..Len(log) : log[j].op \in {"llm.complete", "llm.synthesize"}})

\* C20: one quiz generation invokes the language model exactly once, with or
\* without a supplied context.
C20_OneModelCall ==
    (eqpc = "generating" /\ gpc \in {"save", "done"}) => LLMCalls = 1

\* ------------------------------------------------ the steps of one query
OpsOfLog == [k \in 1..Len(log) |-> log[k].op]
IsPrefixOf(a, b) == Len(a) <= Len(b) /\ a = SubSeq(b, 1, Len(a))

\* C21: a query goes through rewrite, then retrieval and synthesis on the
\* rewritten query, then the confidence check, then the optional enrichment, in
\* that order: the rewriter is called once, first and with the question, the
\* video search only after the answer is there, and a call that does not fail
\* ends either answered (no search, no videos) or answered with enrichment
\* (the search was called, as the last step).
C21_StepsInOrder ==
    /\ qpc # "idle" =>
          IsPrefixOf(OpsOfLog, <<"rewrite_query", "query_engine.query",
                                 "search_educational_videos">>)
    /\ qpc \in {"retrieve", "enrich", "done", "raised"} =>
          log[1] = Call("rewrite_query", question)
    /\ qpc \in {"enrich", "done", "raised"} =>
          log[2] = Call("query_engine.query", rewritten_query)
    /\ qpc \in {"rewrite", "retrieve", "enrich"} => Len(log) <= 2
    /\ qpc = "enrich" => response # None
    /\ qpc = "done" =>
          /\ result.answer = response.answer
          /\ \/ Len(log) = 2 /\ result.videos = <<>> /\ ~is_low_confidence(response)
             \/ Len(log) = 3 /\ log[3].op = "search_educational_videos"

C21_Witness ==
    /\ qpc = "done"
    /\ Len(log) = 3
    /\ rewritten_query # question
    /\ result.videos # <<>>

\* ------------------------------------------------ the windows of the chunker
CeilDiv(n, d) == (n + d - 1) \div d
\* The tokens of the window [k*(M-O), min(k*(M-O)+M, N)), k counted from 0.
WindowTokens(k) ==
    SubSeq(tokens, k * (max_tokens - overlap) + 1,
           Min(k * (max_tokens - overlap) + max_tokens, Len(tokens)))

\* C22: for max_tokens M > overlap O >= 0 and N tokens the chunker terminates,
\* its k-th chunk (from 0) is the window [k*(M-O), min(k*(M-O)+M, N)), no chunk
\* is empty and exactly ceil(N / (M-O)) chunks are returned; for O >= M and
\* N > 0 the loop condition never fails, so the call never returns.
C22_WindowsAndTermination ==
    /\ []((cpc \in {"loop", "returned"} /\ max_tokens > overlap) =>
            /\ Len(chunks) <= CeilDiv(Len(tokens), max_tokens - overlap)
            /\ \A k \in 0..(Len(chunks) - 1) :
                  /\ enc_encode(chunks[k + 1]) = WindowTokens(k)
                  /\ chunks[k + 1] # <<>>)
    /\ []((cpc = "returned" /\ max_tokens > overlap) =>
            Len(chunks) = CeilDiv(Len(tokens), max_tokens - overlap))
    /\ ((cpc = "loop" /\ max_tokens > overlap) ~> (cpc = "returned"))
    /\ []((cpc # "idle" /\ overlap >= max_tokens /\ tokens # <<>>) =>
            (cpc = "loop" /\ i < Len(tokens)))

C22_Witness ==
    /\ cpc = "returned"
    /\ text = <<"a", "b", " ", "a">>
    /\ max_tokens = 3
    /\ overlap = 1
    /\ chunks = << <<"a", "b", " ">>, <<" ", "a">> >>

\* ------------------------------------------------ the best-effort stages
SearchFailed ==
    search_outcome.raised \/ (\E k \in 1..Len(search_outcome.items) : ~search_outcome.items[k].ok)

ExpectedVideos ==
    IF get_videos \/ response.source_nodes = <<>>
          \/ ~MaxScoreAbove(response.source_nodes, 70)
    THEN IF SearchFailed THEN <<>>
         ELSE [k \in 1..Len(search_outcome.items) |->
                 [id |-> search_outcome.items[k].id,
                  url |-> <<"https://www.youtube.com/watch?v=", search_outcome.items[k].id>>]]
    ELSE <<>>
ExpectedResult ==
    [answer |-> response.answer, source_nodes |-> response.source_nodes,
     videos |-> ExpectedVideos]

\* C24: a query is self-contained: no step of it changes the index store or
\* the quiz store, and what it returns is a function of the question, the flag
\* and the collaborators' answers in this call alone, whatever queries and
\* quiz generations ran before.
C24_QuerySelfContained ==
    /\ [][(qpc # "idle" \/ qpc' # "idle") =>
            (coll' = coll /\ persisted' = persisted /\ quiz_store' = quiz_store)]_vars
    /\ [](qpc \in {"retrieve", "enrich", "done", "raised"} =>
            rewritten_query = IF rewrite_reply.kind = "raised" THEN question
                              ELSE strip(rewrite_reply.value))
    /\ [](qpc = "done" => result = ExpectedResult)

C24_Witness ==
    /\ qpc = "done"
    /\ quiz_store # <<>>
    /\ ~get_videos
    /\ result = ExpectedResult
    /\ result.videos = <<>>
    /\ result.source_nodes # <<>>

====
